---- MODULE Spec2Model ----
(***************************************************************************)
(* Model of the process-tweet oracle function: the request parameter       *)
(* decoder (params.rs) and the pipeline of main.rs: decode, fetch,         *)
(* eligibility, scoring, instruction encoding, emit.                       *)
(*                                                                         *)
(* Text is a sequence of one-character strings, except that a key name, a  *)
(* base58 address and the like are kept as one token where the code only   *)
(* ever compares them whole.  A u64 is a sequence of four 16-bit limbs,    *)
(* least significant first, so that 64-bit arithmetic keeps its width.     *)
(***************************************************************************)
EXTENDS Integers, Sequences, FiniteSets, TLC

VARIABLES pc, runner, params, tweet, now, eligibility, points, ixn, emitted, stages

vars == <<pc, runner, params, tweet, now, eligibility, points, ixn, emitted, stages>>

(***************************************************************************)
(* Results: Ok(value), Err(message), or a panic (an unwrap that failed),   *)
(* and options, as pairs <<tag, value>>: x[1] is the tag, x[2] the value.  *)
(***************************************************************************)
Ok(v) == <<"Ok", v>>
Err(m) == <<"Err", m>>
Panic == <<"Panic", "panic">>
None == <<"None", "none">>
Some(v) == <<"Some", v>>

(***************************************************************************)
(* params.rs: ContainerParams::decode                                      *)
(***************************************************************************)
Comma == ","
Equals == "="
\* a byte that makes the blob invalid UTF-8
BadByte == "\\xff"

\* Pubkey::default(): 32 zero bytes, whose base58 text is 32 ones
DefaultPubkey == "11111111111111111111111111111111"
\* base58 texts of two other addresses
PubkeyTexts == {"AddrA", "AddrB", DefaultPubkey}

Digits == {"0", "1", "2", "3", "4", "5", "6", "7", "8", "9"}
DigitValue(c) ==
    CASE c = "0" -> 0 [] c = "1" -> 1 [] c = "2" -> 2 [] c = "3" -> 3 [] c = "4" -> 4
      [] c = "5" -> 5 [] c = "6" -> 6 [] c = "7" -> 7 [] c = "8" -> 8 [] c = "9" -> 9

\* index of the first occurrence of sep in s, 0 when there is none
FirstIndex(s, sep) ==
    IF \E i \in 1..Len(s) : s[i] = sep
    THEN CHOOSE i \in 1..Len(s) : s[i] = sep /\ \A j \in 1..(i - 1) : s[j] # sep
    ELSE 0

\* str::split(sep): the pieces between separators; an empty text is one empty piece
RECURSIVE Split(_, _)
Split(s, sep) ==
    LET i == FirstIndex(s, sep)
    IN IF i = 0 THEN <<s>>
       ELSE <<SubSeq(s, 1, i - 1)>> \o Split(SubSeq(s, i + 1, Len(s)), sep)

\* str::splitn(2, sep): split at the first separator only
Splitn2(s, sep) ==
    LET i == FirstIndex(s, sep)
    IN IF i = 0 THEN <<s>>
       ELSE <<SubSeq(s, 1, i - 1), SubSeq(s, i + 1, Len(s))>>

\* Pubkey::from_str: a whole base58 address, nothing else
PubkeyFromStr(v) ==
    IF Len(v) = 1 /\ v[1] \in PubkeyTexts THEN Ok(v[1]) ELSE Err("ParsePubkeyError")

\* u64::from_str on decimal digits (NumericId::from_str)
RECURSIVE DecimalValue(_)
DecimalValue(v) ==
    IF Len(v) = 0 THEN 0
    ELSE 10 * DecimalValue(SubSeq(v, 1, Len(v) - 1)) + DigitValue(v[Len(v)])

NumericIdFromStr(v) ==
    IF Len(v) >= 1 /\ \A i \in 1..Len(v) : v[i] \in Digits
    THEN Ok(DecimalValue(v)) ELSE Err("ParseIntError")

\* the six locals of decode before the loop
DefaultFields ==
    [program_id |-> DefaultPubkey, realm_pda |-> DefaultPubkey, user |-> DefaultPubkey,
     user_account_pda |-> DefaultPubkey, twitter_username |-> <<>>, tweet_id |-> 0]

\* DecodePair keeping the first value of program_id instead of the last
DecodePair_FirstWriteWins(fields, env_pair) ==
    LET pair == Splitn2(env_pair, Equals)
        key == pair[1]
        pk == PubkeyFromStr(pair[2])
        id == NumericIdFromStr(pair[2])
        SetPk(name) == IF pk[1] = "Ok" THEN Ok([fields EXCEPT ![name] = pk[2]]) ELSE Panic
    IN IF Len(pair) # 2 THEN Ok(fields)
       ELSE CASE key = <<"PID">> ->
                     IF fields.program_id = DefaultPubkey THEN SetPk("program_id")
                     ELSE Ok(fields)
              [] key = <<"REALM_PDA">> -> SetPk("realm_pda")
              [] key = <<"USER">> -> SetPk("user")
              [] key = <<"USER_ACCOUNT_PDA">> -> SetPk("user_account_pda")
              [] key = <<"TWITTER_USERNAME">> ->
                     Ok([fields EXCEPT !.twitter_username = pair[2]])
              [] key = <<"TWEET_ID">> ->
                     IF id[1] = "Ok" THEN Ok([fields EXCEPT !.tweet_id = id[2]]) ELSE Panic
              [] OTHER -> Ok(fields)

\* one iteration of the loop over the comma-separated pairs: Ok(fields) or Panic
DecodePair(fields, env_pair) ==
    LET pair == Splitn2(env_pair, Equals)
        key == pair[1]
        pk == PubkeyFromStr(pair[2])
        id == NumericIdFromStr(pair[2])
        SetPk(name) == IF pk[1] = "Ok" THEN Ok([fields EXCEPT ![name] = pk[2]]) ELSE Panic
    IN IF Len(pair) # 2 THEN Ok(fields)
       ELSE CASE key = <<"PID">> -> SetPk("program_id")
              [] key = <<"REALM_PDA">> -> SetPk("realm_pda")
              [] key = <<"USER">> -> SetPk("user")
              [] key = <<"USER_ACCOUNT_PDA">> -> SetPk("user_account_pda")
              [] key = <<"TWITTER_USERNAME">> ->
                     Ok([fields EXCEPT !.twitter_username = pair[2]])
              [] key = <<"TWEET_ID">> ->
                     IF id[1] = "Ok" THEN Ok([fields EXCEPT !.tweet_id = id[2]]) ELSE Panic
              [] OTHER -> Ok(fields)

\* the whole loop, pairs in input order
RECURSIVE DecodeLoop(_, _)
DecodeLoop(fields, pairs) ==
    IF Len(pairs) = 0 THEN Ok(fields)
    ELSE LET r == DecodePair(fields, Head(pairs))
         IN IF r[1] = "Ok" THEN DecodeLoop(r[2], Tail(pairs)) ELSE Panic

\* ValidateFields checking TWEET_ID before the other fields
ValidateFields_TweetIdFirst(f) ==
    IF f.tweet_id = 0 THEN Err("TWEET_ID cannot be undefined")
    ELSE IF f.program_id = DefaultPubkey THEN Err("PID cannot be undefined")
    ELSE IF f.realm_pda = DefaultPubkey THEN Err("REALM_PDA cannot be undefined")
    ELSE IF f.user = DefaultPubkey THEN Err("USER cannot be undefined")
    ELSE IF f.user_account_pda = DefaultPubkey
         THEN Err("USER_ACCOUNT_PDA cannot be undefined")
    ELSE IF f.twitter_username = <<>> THEN Err("TWITTER_USERNAME cannot be undefined")
    ELSE Ok(f)

\* ValidateFields without the check of tweet_id
ValidateFields_NoTweetIdCheck(f) ==
    IF f.program_id = DefaultPubkey THEN Err("PID cannot be undefined")
    ELSE IF f.realm_pda = DefaultPubkey THEN Err("REALM_PDA cannot be undefined")
    ELSE IF f.user = DefaultPubkey THEN Err("USER cannot be undefined")
    ELSE IF f.user_account_pda = DefaultPubkey
         THEN Err("USER_ACCOUNT_PDA cannot be undefined")
    ELSE IF f.twitter_username = <<>> THEN Err("TWITTER_USERNAME cannot be undefined")
    ELSE Ok(f)

\* the checks after the loop, in the order of the code
ValidateFields(f) ==
    IF f.program_id = DefaultPubkey THEN Err("PID cannot be undefined")
    ELSE IF f.realm_pda = DefaultPubkey THEN Err("REALM_PDA cannot be undefined")
    ELSE IF f.user = DefaultPubkey THEN Err("USER cannot be undefined")
    ELSE IF f.user_account_pda = DefaultPubkey
         THEN Err("USER_ACCOUNT_PDA cannot be undefined")
    ELSE IF f.twitter_username = <<>> THEN Err("TWITTER_USERNAME cannot be undefined")
    ELSE IF f.tweet_id = 0 THEN Err("TWEET_ID cannot be undefined")
    ELSE Ok(f)

\* ContainerParams::decode
Decode(container_params) ==
    IF \E i \in 1..Len(container_params) : container_params[i] = BadByte THEN Panic
    ELSE LET r == DecodeLoop(DefaultFields, Split(container_params, Comma))
         IN IF r[1] = "Ok" THEN ValidateFields(r[2]) ELSE Panic

(***************************************************************************)
(* main.rs: assert_tweet_eligibility                                       *)
(***************************************************************************)
VtxTag == <<"$", "V", "T", "X">>
VortexcoinTag == <<"@", "V", "o", "r", "t", "e", "x", "c", "o", "i", "n">>

\* str::contains: pat occurs in text as a contiguous run of characters
Contains(text, pat) ==
    \E i \in 1..(Len(text) - Len(pat) + 1) : SubSeq(text, i, i + Len(pat) - 1) = pat

\* 4 * 3_600 of the age check
MinAgeSeconds == 4 * 3600

\* the age check with > in place of >=
TooRecent_Strict(created_at, now_timestamp) == created_at > now_timestamp - MinAgeSeconds

\* the age check: TRUE when the tweet is rejected as too recent
TooRecent(created_at, now_timestamp) == created_at >= now_timestamp - MinAgeSeconds

\* assert_tweet_eligibility with the withheld check moved before the tag checks
AssertTweetEligibility_WithheldFirst(t, now_timestamp) ==
    IF t.created_at[1] = "None" THEN Panic
    ELSE IF TooRecent(t.created_at[2], now_timestamp)
         THEN Err("tweet must be at least 4h old")
    ELSE IF t.withheld[1] = "Some" THEN Err("tweet is withheld")
    ELSE IF ~Contains(t.text, VtxTag) THEN Err("tweet must contain $VTX")
    ELSE IF ~Contains(t.text, VortexcoinTag) THEN Err("tweet must contain @Vortexcoin")
    ELSE Ok("eligible")

AssertTweetEligibility(t, now_timestamp) ==
    IF t.created_at[1] = "None" THEN Panic
    ELSE IF TooRecent(t.created_at[2], now_timestamp)
         THEN Err("tweet must be at least 4h old")
    ELSE IF ~Contains(t.text, VtxTag) THEN Err("tweet must contain $VTX")
    ELSE IF ~Contains(t.text, VortexcoinTag) THEN Err("tweet must contain @Vortexcoin")
    ELSE IF t.withheld[1] = "Some" THEN Err("tweet is withheld")
    ELSE Ok("eligible")

(***************************************************************************)
(* main.rs: calculate_tweet_points, in u64 arithmetic                      *)
(***************************************************************************)
LimbBase == 256 * 256
Limbs == 1..4
U64Max == <<LimbBase - 1, LimbBase - 1, LimbBase - 1, LimbBase - 1>>
\* a number below 2^16 as a u64
U64Of(n) == <<n, 0, 0, 0>>

LIKE_MULTIPLIER == 1
REPLY_MULTIPLIER == 1
QUOTE_MULTIPLIER == 1
RETWEET_MULTIPLIER == 1

\* carry into limb i of a + b
RECURSIVE AddCarry(_, _, _)
AddCarry(a, b, i) ==
    IF i = 1 THEN 0 ELSE (a[i - 1] + b[i - 1] + AddCarry(a, b, i - 1)) \div LimbBase

\* a + b reduced modulo 2^64, and whether the true sum needs a 65th bit
WrappingAdd(a, b) == [i \in Limbs |-> (a[i] + b[i] + AddCarry(a, b, i)) % LimbBase]
AddOverflows(a, b) == AddCarry(a, b, 5) # 0

\* carry into limb i of a * k, for a multiplier k below 2^15
RECURSIVE MulCarry(_, _, _)
MulCarry(a, k, i) ==
    IF i = 1 THEN 0 ELSE (a[i - 1] * k + MulCarry(a, k, i - 1)) \div LimbBase

WrappingMul(a, k) == [i \in Limbs |-> (a[i] * k + MulCarry(a, k, i)) % LimbBase]
MulOverflows(a, k) == MulCarry(a, k, 5) # 0

\* the four products and three additions of the formula, left to right
PointsTerms(m) ==
    <<WrappingMul(m.like_count, LIKE_MULTIPLIER),
      WrappingMul(m.reply_count, REPLY_MULTIPLIER),
      WrappingMul(m.quote_count[2], QUOTE_MULTIPLIER),
      WrappingMul(m.retweet_count, RETWEET_MULTIPLIER)>>

PointsWrapped(m) ==
    LET t == PointsTerms(m)
    IN WrappingAdd(WrappingAdd(WrappingAdd(t[1], t[2]), t[3]), t[4])

PointsOverflows(m) ==
    LET t == PointsTerms(m)
    IN \/ MulOverflows(m.like_count, LIKE_MULTIPLIER)
       \/ MulOverflows(m.reply_count, REPLY_MULTIPLIER)
       \/ MulOverflows(m.quote_count[2], QUOTE_MULTIPLIER)
       \/ MulOverflows(m.retweet_count, RETWEET_MULTIPLIER)
       \/ AddOverflows(t[1], t[2])
       \/ AddOverflows(WrappingAdd(t[1], t[2]), t[3])
       \/ AddOverflows(WrappingAdd(WrappingAdd(t[1], t[2]), t[3]), t[4])

\* The outcomes calculate_tweet_points can have.  An overflowing + or * panics
\* in a build with overflow checks and wraps in a build without them.
CalculateTweetPoints(t) ==
    IF t.public_metrics[1] = "None" THEN {Panic}
    ELSE IF t.public_metrics[2].quote_count[1] = "None" THEN {Panic}
    ELSE IF PointsOverflows(t.public_metrics[2])
         THEN {Panic, Ok(PointsWrapped(t.public_metrics[2]))}
    ELSE {Ok(PointsWrapped(t.public_metrics[2]))}

(***************************************************************************)
(* main.rs: the instruction data and the settle instruction                *)
(***************************************************************************)
\* get_ixn_discriminator("process_tweet_settle"): the first 8 bytes of
\* sha256("global:process_tweet_settle")
ProcessTweetSettleDiscriminator == <<115, 114, 114, 182, 30, 137, 109, 145>>

\* u64::to_be_bytes, most significant byte first
ToLeBytes_BigEndian(x) ==
    [i \in 1..8 |-> IF i % 2 = 1 THEN x[(10 - i) \div 2] \div 256 ELSE x[(10 - i) \div 2] % 256]

\* u64::to_le_bytes
ToLeBytes(x) ==
    [i \in 1..8 |-> IF i % 2 = 1 THEN x[(i + 1) \div 2] % 256 ELSE x[i \div 2] \div 256]

\* u64::from_le_bytes, what the consumer of the payload does
FromLeBytes(b) == [i \in Limbs |-> b[2 * i - 1] + 256 * b[2 * i]]

IxnData(p) == ProcessTweetSettleDiscriminator \o ToLeBytes(p)

\* AccountMeta::new and AccountMeta::new_readonly
AccountMetaNew(pubkey, is_signer) ==
    [pubkey |-> pubkey, is_signer |-> is_signer, is_writable |-> TRUE]
AccountMetaNewReadonly(pubkey, is_signer) ==
    [pubkey |-> pubkey, is_signer |-> is_signer, is_writable |-> FALSE]

\* SettleAccounts with the user account writable
SettleAccounts_UserWritable(r, p, request_key) ==
    <<AccountMetaNewReadonly(r.signer, TRUE),
      AccountMetaNew(p.user, FALSE),
      AccountMetaNew(p.realm_pda, FALSE),
      AccountMetaNew(p.user_account_pda, FALSE),
      AccountMetaNew(p.user_account_pda, FALSE),
      AccountMetaNewReadonly(r.function, FALSE),
      AccountMetaNewReadonly(request_key, FALSE)>>

\* the accounts of settle_ixn; request_key is the unwrapped function_request_key
SettleAccounts(r, p, request_key) ==
    <<AccountMetaNewReadonly(r.signer, TRUE),
      AccountMetaNewReadonly(p.user, FALSE),
      AccountMetaNew(p.realm_pda, FALSE),
      AccountMetaNew(p.user_account_pda, FALSE),
      AccountMetaNew(p.user_account_pda, FALSE),
      AccountMetaNewReadonly(r.function, FALSE),
      AccountMetaNewReadonly(request_key, FALSE)>>

SettleIxn(r, p, pts) ==
    IF r.function_request_key[1] = "None" THEN Panic
    ELSE Ok([program_id |-> p.program_id,
             data |-> IxnData(pts),
             accounts |-> SettleAccounts(r, p, r.function_request_key[2])])

(***************************************************************************)
(* Inputs                                                                  *)
(***************************************************************************)
\* all concatenations of at most n members of the set of sequences parts
RECURSIVE Concats(_, _)
Concats(parts, n) ==
    IF n = 0 THEN {<<>>}
    ELSE LET shorter == Concats(parts, n - 1)
         IN shorter \cup {a \o b : a \in shorter, b \in parts}

\* entries joined by commas into one blob
RECURSIVE Join(_)
Join(entries) ==
    IF Len(entries) = 0 THEN <<>>
    ELSE IF Len(entries) = 1 THEN entries[1]
    ELSE entries[1] \o <<Comma>> \o Join(Tail(entries))

\* the six pairs of a well-formed request, as in test_params_decode
CanonicalEntries ==
    <<<<"PID", "=", "AddrA">>,
      <<"REALM_PDA", "=", "AddrA">>,
      <<"USER", "=", "AddrB">>,
      <<"USER_ACCOUNT_PDA", "=", "AddrB">>,
      <<"TWITTER_USERNAME", "=", "e", "l", "o", "n">>,
      <<"TWEET_ID", "=", "1", "7">>>>

\* the entries of CanonicalEntries whose index is in keep, in order
RECURSIVE Pick(_, _)
Pick(keep, i) ==
    IF i > Len(CanonicalEntries) THEN <<>>
    ELSE (IF i \in keep THEN <<CanonicalEntries[i]>> ELSE <<>>) \o Pick(keep, i + 1)

\* entries that repeat a key, carry a default or unparsable value, have no '=',
\* have an unknown key, are empty, or are not UTF-8
OddEntries ==
    {<<"PID", "=", "AddrB">>,
     <<"PID", "=", DefaultPubkey>>,
     <<"PID", "=", "x">>,
     <<"PID">>,
     <<"TWITTER_USERNAME", "=">>,
     <<"TWITTER_USERNAME", "=", "a", "=", "b">>,
     <<"TWEET_ID", "=", "0">>,
     <<"TWEET_ID", "=", "4", "2">>,
     <<"FOO", "=", "x">>,
     <<>>,
     <<BadByte>>}

MaxExtra == 1

\* sequences of at most n odd entries
RECURSIVE OddSeqs(_)
OddSeqs(n) ==
    IF n = 0 THEN {<<>>}
    ELSE LET shorter == OddSeqs(n - 1)
         IN shorter \cup {Append(a, e) : a \in shorter, e \in OddEntries}

\* a sub-list of the canonical entries with odd entries before and after it,
\* at most MaxExtra odd entries in all
DecodeEntryLists ==
    UNION {{pre \o Pick(keep, 1) \o post :
                keep \in SUBSET (1..Len(CanonicalEntries)),
                post \in {q \in OddSeqs(MaxExtra) : Len(pre) + Len(q) <= MaxExtra}} :
           pre \in OddSeqs(MaxExtra)}

\* the blobs of the whole-pipeline runs
PipelineBlobs ==
    {Join(CanonicalEntries),
     Join(CanonicalEntries \o <<<<"PID", "=", "AddrB">>>>),
     Join(<<<<"FOO", "=", "x">>>> \o CanonicalEntries \o <<<<"PID", "=", "AddrB">>, <<"PID">>>>),
     Join(SubSeq(CanonicalEntries, 1, 5)),
     Join(CanonicalEntries \o <<<<"TWEET_ID", "=", "x">>>>),
     <<BadByte>>,
     <<>>}

\* pieces of tweet text: the two tags, whole, split, and in another case
TextChunks ==
    {VtxTag, <<"$", "V", "T">>, <<"X">>, <<"$", "v", "t", "x">>,
     VortexcoinTag, <<"@", "V", "o", "r", "t", "e", "x">>, <<"c", "o", "i", "n">>,
     <<"@", "v", "o", "r", "t", "e", "x", "c", "o", "i", "n">>, <<" ">>}

DecodeBlobs == {Join(es) : es \in DecodeEntryLists} \cup PipelineBlobs

MaxChunks == 3
MaxSkew == 2

\* clock readings, and creation times around four hours before them
BaseNow == 17 * 100000000
NowValues == {BaseNow, BaseNow + 1}
CreatedValues ==
    {None} \cup {Some(BaseNow - MinAgeSeconds + d) : d \in (0 - MaxSkew)..MaxSkew}
           \cup {Some(BaseNow - 5 * 3600), Some(BaseNow - 3600)}
WithheldValues == {None, Some("withheld")}

Metrics(l, r, q, t) ==
    Some([like_count |-> l, reply_count |-> r, quote_count |-> q, retweet_count |-> t])

\* the metrics of the end-to-end scenario
ScenarioMetrics == Metrics(U64Of(10), U64Of(2), Some(U64Of(1)), U64Of(3))

EligibilityTweets ==
    {[created_at |-> c, text |-> x, withheld |-> w, public_metrics |-> ScenarioMetrics] :
        c \in CreatedValues, x \in Concats(TextChunks, MaxChunks), w \in WithheldValues}

MaxCount == 2

\* counters near 0, near the limb boundaries and near 2^64 - 1
CountValues ==
    {U64Of(n) : n \in 0..MaxCount}
      \cup {<<LimbBase - 1 - n, LimbBase - 1, LimbBase - 1, LimbBase - 1>> : n \in 0..MaxCount}
      \cup {<<LimbBase - 1, 0, 0, 0>>, <<0, 1, 0, 0>>, <<0, 0, 0, LimbBase \div 2>>}

BothTags == VtxTag \o <<" ">> \o VortexcoinTag

ScoreTweets ==
    {[created_at |-> Some(BaseNow - 5 * 3600), text |-> BothTags, withheld |-> None,
      public_metrics |-> m] :
        m \in {None} \cup {Metrics(l, r, q, t) :
                              l \in CountValues, r \in CountValues,
                              q \in {None} \cup {Some(c) : c \in CountValues},
                              t \in CountValues}}

PipelineTweets ==
    {[created_at |-> c, text |-> x, withheld |-> w, public_metrics |-> m] :
        c \in CreatedValues,
        x \in {BothTags, VtxTag, VortexcoinTag, <<>>},
        w \in WithheldValues,
        m \in {None, ScenarioMetrics,
               Metrics(U64Of(3), U64Of(2), Some(U64Of(1)), U64Of(0)),
               Metrics(U64Of(3), U64Of(2), None, U64Of(0)),
               Metrics(U64Max, U64Of(1), Some(U64Of(0)), U64Of(0))}}

\* scores whose eight bytes differ, and the ends of the range
ScoreValues ==
    CountValues \cup {<<513, 1027, 1541, 2055>>, <<255, 256, 0, 1>>}

\* decoded parameters that pass validation
ValidParams ==
    {[program_id |-> a, realm_pda |-> b, user |-> c, user_account_pda |-> d,
      twitter_username |-> <<"e", "l", "o", "n">>, tweet_id |-> 17] :
        a \in {"AddrA", "AddrB"}, b \in {"AddrA", "AddrB"},
        c \in {"AddrA", "AddrB"}, d \in {"AddrA", "AddrB"}}

\* what FunctionRunner::new_from_cluster can hand to main
Runners(keys, datas) ==
    {[signer |-> "EnclaveSigner", function |-> "Function",
      function_request_key |-> k, function_request_data |-> d] :
        k \in keys, d \in datas}

RequestKeys == {None, Some("FunctionRequest")}
RequestDatas(blobs) == {None} \cup {Some(b) : b \in blobs}

(***************************************************************************)
(* main.rs: main, one action per stage.  A stage that fails ends the run.  *)
(***************************************************************************)
Done(stage, ok) == Append(stages, [stage |-> stage, ok |-> ok])

\* FunctionRunner::new_from_cluster(..).unwrap()
NewRunner ==
    /\ pc = "start"
    /\ \E r \in {Panic} \cup {Ok(x) : x \in Runners(RequestKeys, RequestDatas(PipelineBlobs))} :
          /\ runner' = r
          /\ pc' = IF r[1] = "Ok" THEN "running" ELSE "aborted"
          /\ stages' = Done("runner", r[1] = "Ok")
    /\ UNCHANGED <<params, tweet, now, eligibility, points, ixn, emitted>>

\* ContainerParams::decode(&runner.function_request_data.as_ref().unwrap()
\*     .container_params).unwrap()
DecodeStage ==
    /\ pc = "running"
    /\ LET data == runner[2].function_request_data
           r == IF data[1] = "None" THEN Panic ELSE Decode(data[2])
       IN /\ params' = r
          /\ pc' = IF r[1] = "Ok" THEN "decoded" ELSE "aborted"
          /\ stages' = Done("decode", r[1] = "Ok")
    /\ UNCHANGED <<runner, tweet, now, eligibility, points, ixn, emitted>>

\* get_tweet_by_id(..).await.unwrap(): what the network returns is not decided
\* by this program
FetchStage ==
    /\ pc = "decoded"
    /\ \E r \in {Err("err getting user"), Err("tweet not found")}
                  \cup {Ok(t) : t \in PipelineTweets} :
          /\ tweet' = r
          /\ pc' = IF r[1] = "Ok" THEN "fetched" ELSE "aborted"
          /\ stages' = Done("fetch", r[1] = "Ok")
    /\ UNCHANGED <<runner, params, now, eligibility, points, ixn, emitted>>

\* EligibilityStage going on to scoring whatever the result is
EligibilityStage_NoAbort ==
    /\ pc = "fetched"
    /\ \E n \in NowValues :
          LET r == AssertTweetEligibility(tweet[2], n)
          IN /\ now' = n
             /\ eligibility' = r
             /\ pc' = "eligible"
             /\ stages' = Done("eligibility", r[1] = "Ok")
    /\ UNCHANGED <<runner, params, tweet, points, ixn, emitted>>

\* assert_tweet_eligibility(&tweet).unwrap(), reading the clock
EligibilityStage ==
    /\ pc = "fetched"
    /\ \E n \in NowValues :
          LET r == AssertTweetEligibility(tweet[2], n)
          IN /\ now' = n
             /\ eligibility' = r
             /\ pc' = IF r[1] = "Ok" THEN "eligible" ELSE "aborted"
             /\ stages' = Done("eligibility", r[1] = "Ok")
    /\ UNCHANGED <<runner, params, tweet, points, ixn, emitted>>

\* calculate_tweet_points(&tweet).unwrap()
ScoreStage ==
    /\ pc = "eligible"
    /\ \E r \in CalculateTweetPoints(tweet[2]) :
          /\ points' = r
          /\ pc' = IF r[1] = "Ok" THEN "scored" ELSE "aborted"
          /\ stages' = Done("score", r[1] = "Ok")
    /\ UNCHANGED <<runner, params, tweet, now, eligibility, ixn, emitted>>

\* building ixn_data and settle_ixn
EncodeStage ==
    /\ pc = "scored"
    /\ LET r == SettleIxn(runner[2], params[2], points[2])
       IN /\ ixn' = r
          /\ pc' = IF r[1] = "Ok" THEN "encoded" ELSE "aborted"
          /\ stages' = Done("encode", r[1] = "Ok")
    /\ UNCHANGED <<runner, params, tweet, now, eligibility, points, emitted>>

\* runner.emit(ixs).await.unwrap()
EmitStage ==
    /\ pc = "encoded"
    /\ \E ok \in BOOLEAN :
          /\ emitted' = IF ok THEN Append(emitted, ixn[2]) ELSE emitted
          /\ pc' = IF ok THEN "done" ELSE "aborted"
          /\ stages' = Done("emit", ok)
    /\ UNCHANGED <<runner, params, tweet, now, eligibility, points, ixn>>

Init ==
    /\ pc = "start"
    /\ runner = None
    /\ params = None
    /\ tweet = None
    /\ now = 0
    /\ eligibility = None
    /\ points = None
    /\ ixn = None
    /\ emitted = <<>>
    /\ stages = <<>>

Next ==
    \/ NewRunner
    \/ DecodeStage
    \/ FetchStage
    \/ EligibilityStage
    \/ ScoreStage
    \/ EncodeStage
    \/ EmitStage

Spec == Init /\ [][Next]_vars

(***************************************************************************)
(* The stages on their own, each from every input of its set               *)
(***************************************************************************)
StagesBefore(n) ==
    SubSeq(<<[stage |-> "runner", ok |-> TRUE], [stage |-> "decode", ok |-> TRUE],
             [stage |-> "fetch", ok |-> TRUE], [stage |-> "eligibility", ok |-> TRUE],
             [stage |-> "score", ok |-> TRUE]>>, 1, n)

TheRunner ==
    [signer |-> "EnclaveSigner", function |-> "Function",
     function_request_key |-> Some("FunctionRequest"),
     function_request_data |-> Some(Join(CanonicalEntries))]

InitDecode ==
    /\ pc = "running"
    /\ runner \in {Ok(r) : r \in Runners({Some("FunctionRequest")}, RequestDatas(DecodeBlobs))}
    /\ params = None
    /\ tweet = None
    /\ now = 0
    /\ eligibility = None
    /\ points = None
    /\ ixn = None
    /\ emitted = <<>>
    /\ stages = StagesBefore(1)

NextDecode == DecodeStage

SpecDecode == InitDecode /\ [][NextDecode]_vars

InitEligibility ==
    /\ pc = "fetched"
    /\ runner = Ok(TheRunner)
    /\ params = Decode(Join(CanonicalEntries))
    /\ tweet \in {Ok(t) : t \in EligibilityTweets}
    /\ now = 0
    /\ eligibility = None
    /\ points = None
    /\ ixn = None
    /\ emitted = <<>>
    /\ stages = StagesBefore(3)

NextEligibility == EligibilityStage

SpecEligibility == InitEligibility /\ [][NextEligibility]_vars

InitScore ==
    /\ pc = "eligible"
    /\ runner = Ok(TheRunner)
    /\ params = Decode(Join(CanonicalEntries))
    /\ tweet \in {Ok(t) : t \in ScoreTweets}
    /\ now = BaseNow
    /\ eligibility = Ok("eligible")
    /\ points = None
    /\ ixn = None
    /\ emitted = <<>>
    /\ stages = StagesBefore(4)

NextScore == ScoreStage

SpecScore == InitScore /\ [][NextScore]_vars

InitEncode ==
    /\ pc = "scored"
    /\ runner \in {Ok(r) : r \in Runners(RequestKeys, {Some(Join(CanonicalEntries))})}
    /\ params \in {Ok(p) : p \in ValidParams}
    /\ tweet = Ok([created_at |-> Some(BaseNow - 5 * 3600), text |-> BothTags,
                   withheld |-> None, public_metrics |-> ScenarioMetrics])
    /\ now = BaseNow
    /\ eligibility = Ok("eligible")
    /\ points \in {Ok(s) : s \in ScoreValues}
    /\ ixn = None
    /\ emitted = <<>>
    /\ stages = StagesBefore(5)

NextEncode ==
    \/ EncodeStage
    \/ EmitStage

SpecEncode == InitEncode /\ [][NextEncode]_vars

(***************************************************************************)
(* Properties                                                              *)
(***************************************************************************)
StageOrder == <<"runner", "decode", "fetch", "eligibility", "score", "encode", "emit">>

\* two results are the same result
SameResult(a, b) == a[1] = b[1] /\ (a[1] = "Panic" \/ a[2] = b[2])

\* C1: a run emits at most one instruction, and only after the runner, decode,
\* fetch, eligibility, scoring, encoding and emit all succeeded in that order on
\* the data of this run; no stage runs after a stage that failed, a run that
\* ends normally has emitted exactly one instruction and an aborted run none.
C1_EmitOnceAfterAllStages ==
    /\ Len(emitted) <= 1
    /\ Len(stages) <= Len(StageOrder)
    /\ \A i \in 1..Len(stages) : stages[i].stage = StageOrder[i]
    /\ \A i \in 1..(Len(stages) - 1) : stages[i].ok
    /\ (pc = "aborted") = (Len(stages) >= 1 /\ ~stages[Len(stages)].ok)
    /\ pc = "aborted" => emitted = <<>>
    /\ pc = "done" => Len(emitted) = 1
    /\ Len(emitted) = 1 =>
          /\ pc = "done"
          /\ Len(stages) = Len(StageOrder)
          /\ \A i \in 1..Len(stages) : stages[i].ok
          /\ runner[2].function_request_data[1] = "Some"
          /\ params[1] = "Ok"
          /\ SameResult(params, Decode(runner[2].function_request_data[2]))
          /\ tweet[1] = "Ok"
          /\ AssertTweetEligibility(tweet[2], now)[1] = "Ok"
          /\ points[1] = "Ok"
          /\ points \in CalculateTweetPoints(tweet[2])
          /\ emitted[1].data = IxnData(points[2])
          /\ emitted[1].program_id = params[2].program_id

\* C1 witness: the end-to-end scenario ran to its end and emitted score 16
C1_Witness ==
    /\ pc = "done"
    /\ Len(emitted) = 1
    /\ tweet[2].public_metrics = ScenarioMetrics
    /\ points = Ok(U64Of(16))

EligibilityRan == pc # "fetched" /\ tweet[1] = "Ok" /\ stages[Len(stages)].stage = "eligibility"

Reasons ==
    <<"tweet must be at least 4h old", "tweet must contain $VTX",
      "tweet must contain @Vortexcoin", "tweet is withheld">>

\* the checks of the policy that the tweet fails, by position
FailedChecks(t, n) ==
    {i \in 1..4 :
        \/ i = 1 /\ n - t.created_at[2] <= MinAgeSeconds
        \/ i = 2 /\ ~Contains(t.text, VtxTag)
        \/ i = 3 /\ ~Contains(t.text, VortexcoinTag)
        \/ i = 4 /\ t.withheld[1] = "Some"}

Least(S) == CHOOSE i \in S : \A j \in S : i <= j

\* C2: for a tweet with a creation time, the result of assert_tweet_eligibility
\* is the reason of the first failing check in the order age, $VTX, @Vortexcoin,
\* withheld, and Ok exactly when no check fails.
C2_FirstFailingCheckWins ==
    (EligibilityRan /\ tweet[2].created_at[1] = "Some") =>
        LET failed == FailedChecks(tweet[2], now)
        IN IF failed = {} THEN eligibility[1] = "Ok"
           ELSE eligibility = Err(Reasons[Least(failed)])

\* C2 witness: old enough, no $VTX, withheld: rejected for the missing tag
C2_Witness ==
    /\ EligibilityRan
    /\ tweet[2].created_at[1] = "Some"
    /\ now - tweet[2].created_at[2] > MinAgeSeconds
    /\ ~Contains(tweet[2].text, VtxTag)
    /\ tweet[2].withheld[1] = "Some"
    /\ eligibility = Err("tweet must contain $VTX")

C4_TooRecentIffYoungerThan4h ==
    (EligibilityRan /\ tweet[2].created_at[1] = "Some") =>
        ((eligibility = Err("tweet must be at least 4h old"))
            <=> (now - tweet[2].created_at[2] < 14400))

DecodeRan == pc # "running" /\ stages[Len(stages)].stage = "decode"

TheBlob == runner[2].function_request_data[2]
HasBlob == runner[2].function_request_data[1] = "Some"
IsText(blob) == \A i \in 1..Len(blob) : blob[i] # BadByte

FieldOrder ==
    <<"program_id", "realm_pda", "user", "user_account_pda", "twitter_username", "tweet_id">>
KeyOrder ==
    <<"PID", "REALM_PDA", "USER", "USER_ACCOUNT_PDA", "TWITTER_USERNAME", "TWEET_ID">>
MissingField ==
    <<"PID cannot be undefined", "REALM_PDA cannot be undefined",
      "USER cannot be undefined", "USER_ACCOUNT_PDA cannot be undefined",
      "TWITTER_USERNAME cannot be undefined", "TWEET_ID cannot be undefined">>

\* the positions, in validation order, of the fields left at their default
DefaultedFields(f) == {i \in 1..6 : f[FieldOrder[i]] = DefaultFields[FieldOrder[i]]}

\* C5: when the pass over the entries completes, decode succeeds exactly when no
\* field is left at its default, and otherwise returns the error of the first
\* defaulted field in the order PID, REALM_PDA, USER, USER_ACCOUNT_PDA,
\* TWITTER_USERNAME, TWEET_ID; decode never succeeds when the pass does not
\* complete.
C5_FirstMissingFieldReported ==
    (DecodeRan /\ HasBlob) =>
        LET loop == DecodeLoop(DefaultFields, Split(TheBlob, Comma))
        IN IF IsText(TheBlob) /\ loop[1] = "Ok"
           THEN IF DefaultedFields(loop[2]) = {}
                THEN params = Ok(loop[2])
                ELSE params = Err(MissingField[Least(DefaultedFields(loop[2]))])
           ELSE params[1] # "Ok"

\* C5 witness: PID is set, USER and TWEET_ID are both missing, USER is reported
C5_Witness ==
    /\ DecodeRan /\ HasBlob /\ IsText(TheBlob)
    /\ LET loop == DecodeLoop(DefaultFields, Split(TheBlob, Comma))
       IN /\ loop[1] = "Ok"
          /\ DefaultedFields(loop[2]) = {3, 6}
    /\ params = Err("USER cannot be undefined")

\* the entries of a blob, and the key of an entry (one that has a '=')
EntriesOf(blob) == Split(blob, Comma)
HasEquals(e) == \E i \in 1..Len(e) : e[i] = Equals
KeyOf(e) == SubSeq(e, 1, FirstIndex(e, Equals) - 1)
ValueOf(e) == SubSeq(e, FirstIndex(e, Equals) + 1, Len(e))
Recognized(e) == HasEquals(e) /\ \E k \in 1..6 : KeyOf(e) = <<KeyOrder[k]>>
EntriesWithKey(es, k) == {i \in 1..Len(es) : HasEquals(es[i]) /\ KeyOf(es[i]) = <<KeyOrder[k]>>}

\* C6 as stated: without a TWEET_ID entry decode fails with the TWEET_ID error,
\* whichever of the other five fields are present.
C6_NoTweetIdAlwaysNamesTweetId ==
    (DecodeRan /\ HasBlob /\ IsText(TheBlob)
       /\ EntriesWithKey(EntriesOf(TheBlob), 6) = {}) =>
        params = Err("TWEET_ID cannot be undefined")

\* C6 amended: without a TWEET_ID entry decode never succeeds; when the pass
\* over the entries completes it returns the TWEET_ID error exactly when the
\* other five fields are all set to a non-default value, and otherwise the
\* error of the first of them that is not.
C6_NoTweetIdNeverSucceeds ==
    (DecodeRan /\ HasBlob /\ EntriesWithKey(EntriesOf(TheBlob), 6) = {}) =>
        LET loop == DecodeLoop(DefaultFields, Split(TheBlob, Comma))
        IN /\ params[1] # "Ok"
           /\ (IsText(TheBlob) /\ loop[1] = "Ok") =>
                 /\ 6 \in DefaultedFields(loop[2])
                 /\ params = Err(MissingField[Least(DefaultedFields(loop[2]))])
                 /\ (params = Err("TWEET_ID cannot be undefined"))
                       <=> (DefaultedFields(loop[2]) = {6})

\* C6 witness: the five other fields are set, there is no TWEET_ID entry, and
\* the TWEET_ID error is returned
C6_Witness ==
    /\ DecodeRan /\ HasBlob /\ IsText(TheBlob)
    /\ EntriesWithKey(EntriesOf(TheBlob), 6) = {}
    /\ \A k \in 1..5 : EntriesWithKey(EntriesOf(TheBlob), k) # {}
    /\ params = Err("TWEET_ID cannot be undefined")

ScoreRan == pc # "eligible" /\ tweet[1] = "Ok" /\ stages[Len(stages)].stage = "score"

\* the carry into limb i of the sum of the four counters taken together
RECURSIVE SumCarry(_, _)
SumCarry(m, i) ==
    IF i = 1 THEN 0
    ELSE (m.like_count[i - 1] + m.reply_count[i - 1] + m.quote_count[2][i - 1]
            + m.retweet_count[i - 1] + SumCarry(m, i - 1)) \div LimbBase

\* the low 64 bits of that sum, and whether the sum is at most 2^64 - 1
SumLow(m) ==
    <<(m.like_count[1] + m.reply_count[1] + m.quote_count[2][1] + m.retweet_count[1]
         + SumCarry(m, 1)) % LimbBase,
      (m.like_count[2] + m.reply_count[2] + m.quote_count[2][2] + m.retweet_count[2]
         + SumCarry(m, 2)) % LimbBase,
      (m.like_count[3] + m.reply_count[3] + m.quote_count[2][3] + m.retweet_count[3]
         + SumCarry(m, 3)) % LimbBase,
      (m.like_count[4] + m.reply_count[4] + m.quote_count[2][4] + m.retweet_count[4]
         + SumCarry(m, 4)) % LimbBase>>
SumFits(m) == SumCarry(m, 5) = 0

HasAllMetrics(t) == t.public_metrics[1] = "Some" /\ t.public_metrics[2].quote_count[1] = "Some"

\* C7: calculate_tweet_points returns like + reply + quote + retweet when that
\* sum is at most 2^64 - 1, and returns no value at all when it is larger.
C7_ExactSumOrFailClosed ==
    (ScoreRan /\ HasAllMetrics(tweet[2])) =>
        IF SumFits(tweet[2].public_metrics[2])
        THEN points = Ok(SumLow(tweet[2].public_metrics[2]))
        ELSE points[1] # "Ok"

EncodeRan == pc # "scored" /\ ixn[1] = "Ok"

Greatest(S) == CHOOSE i \in S : \A j \in S : j <= i

\* whether the value of a recognized entry parses, and what it parses to
ValueParses(e) ==
    IF KeyOf(e) = <<"TWITTER_USERNAME">> THEN TRUE
    ELSE IF KeyOf(e) = <<"TWEET_ID">> THEN NumericIdFromStr(ValueOf(e))[1] = "Ok"
    ELSE PubkeyFromStr(ValueOf(e))[1] = "Ok"
ParsedValue(e) ==
    IF KeyOf(e) = <<"TWITTER_USERNAME">> THEN ValueOf(e)
    ELSE IF KeyOf(e) = <<"TWEET_ID">> THEN NumericIdFromStr(ValueOf(e))[2]
    ELSE PubkeyFromStr(ValueOf(e))[2]

\* each field from the last entry that carries its key, its default otherwise
LastWriteFields(es) ==
    [program_id |->
        IF EntriesWithKey(es, 1) = {} THEN DefaultFields.program_id
        ELSE ParsedValue(es[Greatest(EntriesWithKey(es, 1))]),
     realm_pda |->
        IF EntriesWithKey(es, 2) = {} THEN DefaultFields.realm_pda
        ELSE ParsedValue(es[Greatest(EntriesWithKey(es, 2))]),
     user |->
        IF EntriesWithKey(es, 3) = {} THEN DefaultFields.user
        ELSE ParsedValue(es[Greatest(EntriesWithKey(es, 3))]),
     user_account_pda |->
        IF EntriesWithKey(es, 4) = {} THEN DefaultFields.user_account_pda
        ELSE ParsedValue(es[Greatest(EntriesWithKey(es, 4))]),
     twitter_username |->
        IF EntriesWithKey(es, 5) = {} THEN DefaultFields.twitter_username
        ELSE ParsedValue(es[Greatest(EntriesWithKey(es, 5))]),
     tweet_id |->
        IF EntriesWithKey(es, 6) = {} THEN DefaultFields.tweet_id
        ELSE ParsedValue(es[Greatest(EntriesWithKey(es, 6))])]

\* entries i and i + 1 exchanged
Swap(es, i) ==
    SubSeq(es, 1, i - 1) \o <<es[i + 1], es[i]>> \o SubSeq(es, i + 2, Len(es))

\* entries i and i + 1 do not carry the same recognized key
DistinctKeys(es, i) ==
    ~(Recognized(es[i]) /\ Recognized(es[i + 1]) /\ KeyOf(es[i]) = KeyOf(es[i + 1]))

\* C9: for a blob of text whose recognized entries all parse, the fields decode
\* validates are those of the last entry carrying each key (a key with no entry
\* stays at its default); dropping the entries that have no '=' or an unknown
\* key, or exchanging two neighbouring entries of distinct keys, does not change
\* the result of decode.
C9_LastWriteWins ==
    (DecodeRan /\ HasBlob /\ IsText(TheBlob)) =>
        LET es == EntriesOf(TheBlob)
            f == LastWriteFields(es)
        IN /\ IF \E i \in 1..Len(es) : Recognized(es[i]) /\ ~ValueParses(es[i])
              THEN params[1] = "Panic"
              ELSE IF DefaultedFields(f) = {} THEN params = Ok(f)
              ELSE params = Err(MissingField[Least(DefaultedFields(f))])
           /\ SameResult(params, Decode(Join(SelectSeq(es, Recognized))))
           /\ \A i \in 1..(Len(es) - 1) :
                 DistinctKeys(es, i) => SameResult(params, Decode(Join(Swap(es, i))))

\* C9 witness: PID=AddrA comes before PID=AddrB, there is an entry of unknown
\* key and one without '=', and decode succeeds with program_id AddrB
C9_Witness ==
    /\ DecodeRan /\ HasBlob /\ IsText(TheBlob)
    /\ LET es == EntriesOf(TheBlob)
       IN /\ \E i, j \in 1..Len(es) :
                /\ i < j
                /\ es[i] = <<"PID", "=", "AddrA">>
                /\ es[j] = <<"PID", "=", "AddrB">>
          /\ \E i \in 1..Len(es) : HasEquals(es[i]) /\ ~Recognized(es[i])
          /\ \E i \in 1..Len(es) : ~HasEquals(es[i])
    /\ params[1] = "Ok"
    /\ params[2].program_id = "AddrB"

\* C10: an encoded or emitted instruction targets the decoded program_id and
\* has the seven accounts enclave signer, user, realm, user account PDA, user
\* account PDA, function, function request key, in that order; slot 1 alone is
\* a signer and slots 3, 4 and 5 alone are writable.
C10_SevenAccountSlots ==
    \A k \in 1..(Len(emitted) + 1) :
        (k <= Len(emitted) \/ EncodeRan) =>
            LET e == IF k <= Len(emitted) THEN emitted[k] ELSE ixn[2]
                p == params[2]
                r == runner[2]
            IN /\ e.program_id = p.program_id
               /\ Len(e.accounts) = 7
               /\ [i \in 1..7 |-> e.accounts[i].pubkey] =
                     <<r.signer, p.user, p.realm_pda, p.user_account_pda,
                       p.user_account_pda, r.function, r.function_request_key[2]>>
               /\ {i \in 1..7 : e.accounts[i].is_signer} = {1}
               /\ {i \in 1..7 : e.accounts[i].is_writable} = {3, 4, 5}

\* C10 witness: an instruction was emitted for parameters whose four addresses
\* are not all the same
C10_Witness ==
    /\ Len(emitted) = 1
    /\ params[2].program_id = "AddrB"
    /\ params[2].user = "AddrA"
    /\ params[2].realm_pda = "AddrB"
    /\ emitted[1].accounts[2].pubkey = "AddrA"

====
